---- MODULE Spec2Model ----
(***************************************************************************)
(* Slot-booking client (ClientInterface).  Two versions of the component   *)
(* are in the repository:                                                  *)
(*   "backend"  src/src/components/ClientInterface.jsx  (own backend,      *)
(*              separate error / no-slots screens, Refresh Page button)    *)
(*   "sheetdb"  src/unnamed/part_000  (SheetDB store, sheetId route        *)
(*              parameter, local status filter, error banner)              *)
(* The variable variant says which one runs.  Every piece of React state   *)
(* is a function of the session (browser tab); the store is shared.        *)
(***************************************************************************)
EXTENDS Integers, Sequences, FiniteSets, TLC

VARIABLES
    variant,          \* which version of the component is running
    active,           \* the sessions (browser tabs) that exist
    store,            \* the remote slot store: its rows, row k is slot k
    phase,            \* "new" (constructed), "mounted", "unmounted"
    sheetId,          \* useParams().sheetId ("" = absent; sheetdb only)
    availableSlots,   \* useState([])
    selectedSlot,     \* useState(null)
    userInfo,         \* useState({firstName:'', lastName:'', email:'', ...})
    bookingComplete,  \* useState(false)
    isLoading,        \* useState(true)
    errorMessage,     \* useState('')
    refreshInterval,  \* useState(null): 0 is null, else a timer id
    cleanup,          \* the cleanup returned by the last run of the effect
    timers,           \* ids of the setInterval timers still running
    timerCount,       \* ids handed out by setInterval so far
    polls,            \* fetchAvailableSlots calls awaiting their response
    bookings,         \* handleBooking calls in progress
    consoleLog        \* what sendEmails has written to the console

react == <<availableSlots, selectedSlot, userInfo, bookingComplete,
           isLoading, errorMessage, refreshInterval>>
vars == <<variant, active, store, phase, sheetId, availableSlots,
          selectedSlot, userInfo, bookingComplete, isLoading, errorMessage,
          refreshInterval, cleanup, timers, timerCount, polls, bookings,
          consoleLog>>

(***************************************************************************)
(* Bounds of the model.                                                    *)
(***************************************************************************)
NumSlots == 1       \* rows of the store
MaxTimers == 2      \* setInterval calls of one page load
MaxPolls == 2       \* list requests of one session in flight at once
MaxBookings == 2    \* handleBooking calls of one session in flight at once
SortRows == 4       \* rows of the store when the order of the list is checked

Sessions == {1, 2}
SheetIds == {"s1", "s2"}   \* the booking links a route change can lead to

(***************************************************************************)
(* The store's rows.  Dates are day numbers, times are the stored strings  *)
(* given as their characters' ranks in the collation order (digits 0..9,   *)
(* the colon before every digit), so that string comparison is computed    *)
(* and not assumed.  Row k of the store is slot k.                         *)
(***************************************************************************)
SlotDate(id) == IF id = 3 THEN 1 ELSE 2
SlotTime(id) == IF id = 1 THEN <<9, -1, 3, 0>>          \* "9:30"
                ELSE IF id = 2 THEN <<1, 0, -1, 0, 0>>  \* "10:00"
                ELSE IF id = 3 THEN <<0, 9, -1, 0, 0>>  \* "09:00"
                ELSE <<1, -1, 0, 0>>                    \* "1:00"

NoSlot == [id |-> 0, status |-> ""]
SlotRow(id) == [id |-> id, status |-> store[id].status]
FreeRow == [status |-> "Available", client_name |-> "", client_email |-> "",
            zoomOption |-> ""]

(***************************************************************************)
(* What the user can type.                                                 *)
(***************************************************************************)
EmptyInfo == [firstName |-> "", lastName |-> "", email |-> "",
              isScholarship |-> FALSE]

(***************************************************************************)
(* Messages.                                                               *)
(***************************************************************************)
FetchPrefix == "Error loading available slots: "
BookPrefix == "Error booking appointment: "
NoSheetMsg == "No sheet ID provided. Please use the correct booking link."
FailDetail(outcome) ==
    IF outcome = "http" THEN "Failed"        \* new Error('Failed to ...'), cut short
    ELSE IF outcome = "net" THEN "Failed to fetch"     \* fetch rejects
    ELSE "Unexpected token"                            \* response.json() rejects
FetchErrors == {FetchPrefix \o FailDetail(o) : o \in {"http", "net", "decode"}}
BookErrors == {BookPrefix \o FailDetail(o) : o \in {"http", "net"}}

Upd(f, s, v) == [f EXCEPT ![s] = v]
\* A state setter of an unmounted component does nothing.
SetState(f, s, v) == IF phase[s] = "mounted" THEN Upd(f, s, v) ELSE f
Range(q) == {q[j] : j \in 1..Len(q)}
RemoveAt(q, i) == [j \in 1..(Len(q) - 1) |-> IF j < i THEN q[j] ELSE q[j + 1]]

Init ==
    /\ variant \in {"backend", "sheetdb"}
    /\ active = {1}
    /\ store = [k \in 1..NumSlots |-> FreeRow]
    /\ phase = [s \in Sessions |-> "new"]
    /\ sheetId \in [Sessions -> {"", "s1"}]
    /\ (variant = "backend" => sheetId = [s \in Sessions |-> ""])
    /\ sheetId[2] = sheetId[1]
    /\ availableSlots = [s \in Sessions |-> <<>>]
    /\ selectedSlot = [s \in Sessions |-> NoSlot]
    /\ userInfo = [s \in Sessions |-> EmptyInfo]
    /\ bookingComplete = [s \in Sessions |-> FALSE]
    /\ isLoading = [s \in Sessions |-> TRUE]
    /\ errorMessage = [s \in Sessions |-> ""]
    /\ refreshInterval = [s \in Sessions |-> 0]
    /\ cleanup = [s \in Sessions |-> [registered |-> FALSE, refreshInterval |-> 0]]
    /\ timers = [s \in Sessions |-> {}]
    /\ timerCount = [s \in Sessions |-> 0]
    /\ polls = [s \in Sessions |-> <<>>]
    /\ bookings = [s \in Sessions |-> <<>>]
    /\ consoleLog = [s \in Sessions |-> {}]

(***************************************************************************)
(* fetchAvailableSlots: what the store answers, the filter and the sort.   *)
(***************************************************************************)
Slots == DOMAIN store
StoreRows == [k \in Slots |-> SlotRow(k)]

IsAvailable(slot) == slot.status = "Available"

\* list(): the backend answers with its bookable rows, SheetDB with every row.
ListResponse == IF variant = "backend"
                THEN SelectSeq(StoreRows, IsAvailable)
                ELSE StoreRows

\* A fetchAvailableSlots that keeps every row of the answer.
KeepAll(data) == data

\* data.filter(slot => slot.status === 'Available') (sheetdb only)
FilterAvailable(data) == IF variant = "sheetdb" THEN SelectSeq(data, IsAvailable)
                         ELSE data

\* String.prototype.localeCompare on the stored time strings: -1, 0 or 1.
RECURSIVE LocaleCompare(_, _)
LocaleCompare(a, b) ==
    IF a = <<>> /\ b = <<>> THEN 0
    ELSE IF a = <<>> THEN -1
    ELSE IF b = <<>> THEN 1
    ELSE IF Head(a) < Head(b) THEN -1
    ELSE IF Head(a) > Head(b) THEN 1
    ELSE LocaleCompare(Tail(a), Tail(b))

\* A comparator that looks at the dates only.
CompareSlotsByDate(a, b) == SlotDate(a.id) - SlotDate(b.id)

\* The comparator handed to sort.
CompareSlots(a, b) ==
    LET dateComparison == SlotDate(a.id) - SlotDate(b.id)
    IN  IF dateComparison # 0 THEN dateComparison
        ELSE LocaleCompare(SlotTime(a.id), SlotTime(b.id))

\* Array.prototype.sort is stable: x goes after the elements not greater.
RECURSIVE InsertSorted(_, _)
InsertSorted(x, q) ==
    IF q = <<>> THEN <<x>>
    ELSE IF CompareSlots(x, Head(q)) < 0 THEN <<x>> \o q
    ELSE <<Head(q)>> \o InsertSorted(x, Tail(q))

RECURSIVE SortSlots(_)
SortSlots(q) == IF q = <<>> THEN <<>>
                ELSE InsertSorted(q[Len(q)], SortSlots(SubSeq(q, 1, Len(q) - 1)))

Snapshot(data) == SortSlots(FilterAvailable(data))

\* A fetchAvailableSlots call awaiting its response.  The store may have
\* answered already (the response is on its way); a request not answered
\* before its response arrives is answered at that moment.  overtaken says
\* that a call made later has already completed successfully.
NewPoll(showLoading) == [showLoading |-> showLoading, answered |-> FALSE,
                         data |-> <<>>, overtaken |-> FALSE]
Response(poll) == IF poll.answered THEN poll.data ELSE ListResponse

\* The calls left pending when the i-th has ended with outcome: those made
\* before it have been overtaken if it succeeded.
Pending(q, i, outcome) ==
    [j \in 1..(Len(q) - 1) |->
        IF j < i THEN [q[j] EXCEPT !.overtaken = @ \/ outcome = "ok"]
        ELSE q[j + 1]]

(***************************************************************************)
(* The render: which screen the component returns, in the order of the     *)
(* early returns.                                                          *)
(***************************************************************************)
\* A render that tests errorMessage before bookingComplete.
ScreenErrorFirst(s) ==
    IF phase[s] # "mounted" THEN "None"
    ELSE IF isLoading[s] /\ ~bookingComplete[s]
         THEN (IF bookings[s] # <<>> THEN "Submitting" ELSE "Loading")
    ELSE IF variant = "backend" /\ errorMessage[s] # "" THEN "Error"
    ELSE IF bookingComplete[s] THEN "Confirmed"
    ELSE IF variant = "backend" /\ availableSlots[s] = <<>> THEN "Empty"
    ELSE IF selectedSlot[s] # NoSlot THEN "SlotSelected"
    ELSE IF availableSlots[s] = <<>> THEN "Empty"
    ELSE "Browsing"

Screen(s) ==
    IF phase[s] # "mounted" THEN "None"
    ELSE IF isLoading[s] /\ ~bookingComplete[s]
         THEN (IF bookings[s] # <<>> THEN "Submitting" ELSE "Loading")
    ELSE IF bookingComplete[s] THEN "Confirmed"
    ELSE IF variant = "backend" /\ errorMessage[s] # "" THEN "Error"
    ELSE IF variant = "backend" /\ availableSlots[s] = <<>> THEN "Empty"
    ELSE IF selectedSlot[s] # NoSlot THEN "SlotSelected"
    ELSE IF availableSlots[s] = <<>> THEN "Empty"
    ELSE "Browsing"

\* The error text is on the screen: the error screen, or the banner above
\* the regular interface.
ErrorShown(s) ==
    \/ Screen(s) = "Error"
    \/ /\ variant = "sheetdb"
       /\ Screen(s) \in {"Empty", "Browsing", "SlotSelected"}
       /\ errorMessage[s] # ""

\* The state of the booking state machine the screen stands for.
RenderState(s) ==
    IF ErrorShown(s) /\ errorMessage[s] \in FetchErrors THEN "FetchFailed"
    ELSE IF ErrorShown(s) /\ errorMessage[s] \in BookErrors THEN "BookingFailed"
    ELSE IF ErrorShown(s) THEN "NoSheet"
    ELSE Screen(s)

(***************************************************************************)
(* The effect: first load, periodic refresh, cleanup.                      *)
(***************************************************************************)
\* The timers left of tm by the cleanup the last run of the effect returned:
\* it clears the refreshInterval of the render that ran the effect.
CleanupTimers(s, tm) ==
    IF cleanup[s].registered /\ cleanup[s].refreshInterval # 0
    THEN tm \ {cleanup[s].refreshInterval}
    ELSE tm

\* The body of the effect, run with route parameter sid while the timers tm
\* are running.
Effect(s, sid, tm) ==
    IF variant = "backend" \/ sid # ""
    THEN /\ Len(polls[s]) < MaxPolls
         /\ timerCount[s] < MaxTimers
         /\ isLoading' = Upd(isLoading, s, TRUE)
         /\ polls' = Upd(polls, s, Append(polls[s], NewPoll(TRUE)))
         /\ timerCount' = Upd(timerCount, s, timerCount[s] + 1)
         /\ timers' = Upd(timers, s, tm \cup {timerCount[s] + 1})
         /\ refreshInterval' = Upd(refreshInterval, s, timerCount[s] + 1)
         /\ cleanup' = Upd(cleanup, s, [registered |-> TRUE,
                                        refreshInterval |-> refreshInterval[s]])
         /\ UNCHANGED errorMessage
    ELSE /\ isLoading' = Upd(isLoading, s, FALSE)
         /\ errorMessage' = Upd(errorMessage, s, NoSheetMsg)
         /\ timers' = Upd(timers, s, tm)
         /\ cleanup' = Upd(cleanup, s, [registered |-> FALSE, refreshInterval |-> 0])
         /\ UNCHANGED <<polls, timerCount, refreshInterval>>

\* The component mounts: the effect runs for the first time.
MountEffect(s) ==
    /\ phase[s] = "new"
    /\ phase' = Upd(phase, s, "mounted")
    /\ Effect(s, sheetId[s], timers[s])
    /\ UNCHANGED <<consoleLog, variant, active, store, sheetId, availableSlots, selectedSlot,
                   userInfo, bookingComplete, bookings>>

\* The route parameter changes: cleanup of the last run, then the effect.
ChangeSheet(s, sid) ==
    /\ variant = "sheetdb"
    /\ phase[s] = "mounted"
    /\ sid # sheetId[s]
    /\ sheetId' = Upd(sheetId, s, sid)
    /\ Effect(s, sid, CleanupTimers(s, timers[s]))
    /\ UNCHANGED <<consoleLog, variant, active, store, phase, availableSlots, selectedSlot,
                   userInfo, bookingComplete, bookings>>

\* The component is taken down while the timers tm are running: the cleanup
\* runs and the component's state is discarded with it.
Teardown(s, tm) ==
    /\ phase' = Upd(phase, s, "unmounted")
    /\ timers' = Upd(timers, s, CleanupTimers(s, tm))
    /\ availableSlots' = Upd(availableSlots, s, <<>>)
    /\ selectedSlot' = Upd(selectedSlot, s, NoSlot)
    /\ userInfo' = Upd(userInfo, s, EmptyInfo)
    /\ bookingComplete' = Upd(bookingComplete, s, FALSE)
    /\ isLoading' = Upd(isLoading, s, TRUE)
    /\ errorMessage' = Upd(errorMessage, s, "")
    /\ refreshInterval' = Upd(refreshInterval, s, 0)
    /\ cleanup' = Upd(cleanup, s, [registered |-> FALSE, refreshInterval |-> 0])

\* The component unmounts (session teardown).
Unmount(s) ==
    /\ phase[s] = "mounted"
    /\ Teardown(s, timers[s])
    /\ UNCHANGED <<consoleLog, variant, active, store, sheetId, timerCount, polls, bookings>>

\* A timer fires: fetchAvailableSlots(false).
Tick(s) ==
    /\ timers[s] # {}
    /\ Len(polls[s]) < MaxPolls
    /\ polls' = Upd(polls, s, Append(polls[s], NewPoll(FALSE)))
    /\ UNCHANGED <<consoleLog, variant, active, store, phase, sheetId, react, cleanup,
                   timers, timerCount, bookings>>

\* The Refresh button of the no-slots screen: fetchAvailableSlots().
Refresh(s) ==
    /\ variant = "backend"
    /\ Screen(s) = "Empty"
    /\ Len(polls[s]) < MaxPolls
    /\ isLoading' = Upd(isLoading, s, TRUE)
    /\ polls' = Upd(polls, s, Append(polls[s], NewPoll(TRUE)))
    /\ UNCHANGED <<consoleLog, variant, active, store, phase, sheetId, availableSlots,
                   selectedSlot, userInfo, bookingComplete, errorMessage,
                   refreshInterval, cleanup, timers, timerCount, bookings>>

\* The Refresh Page button of the error screen: window.location.reload().
\* The page, its timers and its pending requests go; a new one is built.
Reload(s) ==
    /\ variant = "backend"
    /\ Screen(s) = "Error"
    /\ phase' = Upd(phase, s, "new")
    /\ availableSlots' = Upd(availableSlots, s, <<>>)
    /\ selectedSlot' = Upd(selectedSlot, s, NoSlot)
    /\ userInfo' = Upd(userInfo, s, EmptyInfo)
    /\ bookingComplete' = Upd(bookingComplete, s, FALSE)
    /\ isLoading' = Upd(isLoading, s, TRUE)
    /\ errorMessage' = Upd(errorMessage, s, "")
    /\ refreshInterval' = Upd(refreshInterval, s, 0)
    /\ cleanup' = Upd(cleanup, s, [registered |-> FALSE, refreshInterval |-> 0])
    /\ timers' = Upd(timers, s, {})
    /\ timerCount' = Upd(timerCount, s, 0)
    /\ polls' = Upd(polls, s, <<>>)
    /\ bookings' = Upd(bookings, s, <<>>)
    /\ consoleLog' = Upd(consoleLog, s, {})
    /\ UNCHANGED <<variant, active, store, sheetId>>

\* The store answers the i-th pending list request: the response, now on
\* its way, holds the rows as they are at this moment.
Serve(s, i) ==
    /\ i \in 1..Len(polls[s])
    /\ ~polls[s][i].answered
    /\ polls' = Upd(polls, s, [polls[s] EXCEPT ![i].answered = TRUE,
                                               ![i].data = ListResponse])
    /\ UNCHANGED <<consoleLog, variant, active, store, phase, sheetId, react, cleanup,
                   timers, timerCount, bookings>>

\* PollDone with a catch that also empties the list.
PollDoneClears(s, i, outcome) ==
    /\ i \in 1..Len(polls[s])
    /\ polls' = Upd(polls, s, Pending(polls[s], i, outcome))
    /\ IF outcome = "ok"
       THEN /\ availableSlots' = SetState(availableSlots, s,
                                          Snapshot(Response(polls[s][i])))
            /\ UNCHANGED errorMessage
       ELSE /\ errorMessage' = SetState(errorMessage, s, FetchPrefix \o FailDetail(outcome))
            /\ availableSlots' = SetState(availableSlots, s, <<>>)
    /\ isLoading' = IF polls[s][i].showLoading THEN SetState(isLoading, s, FALSE)
                    ELSE isLoading
    /\ UNCHANGED <<consoleLog, variant, active, store, phase, sheetId, selectedSlot,
                   userInfo, bookingComplete, refreshInterval, cleanup, timers,
                   timerCount, bookings>>

\* The response of the i-th pending fetchAvailableSlots call arrives.
PollDone(s, i, outcome) ==
    /\ i \in 1..Len(polls[s])
    /\ polls' = Upd(polls, s, Pending(polls[s], i, outcome))
    /\ IF outcome = "ok"
       THEN /\ availableSlots' = SetState(availableSlots, s,
                                          Snapshot(Response(polls[s][i])))
            /\ UNCHANGED errorMessage
       ELSE /\ errorMessage' = SetState(errorMessage, s, FetchPrefix \o FailDetail(outcome))
            /\ UNCHANGED availableSlots
    /\ isLoading' = IF polls[s][i].showLoading THEN SetState(isLoading, s, FALSE)
                    ELSE isLoading
    /\ UNCHANGED <<consoleLog, variant, active, store, phase, sheetId, selectedSlot, userInfo,
                   bookingComplete, refreshInterval, cleanup, timers, timerCount,
                   bookings>>

(***************************************************************************)
(* The user's actions on the regular interface.                            *)
(***************************************************************************)
\* handleSelectSlot called with any row of the store, on the screen or not.
SelectAnyRow(s, k) ==
    /\ Screen(s) = "Browsing"
    /\ k \in Slots
    /\ selectedSlot' = Upd(selectedSlot, s, SlotRow(k))
    /\ UNCHANGED <<consoleLog, variant, active, store, phase, sheetId, availableSlots, userInfo,
                   bookingComplete, isLoading, errorMessage, refreshInterval,
                   cleanup, timers, timerCount, polls, bookings>>

\* A time-slot button: handleSelectSlot(slot), for a slot on the screen.
SelectSlot(s, k) ==
    /\ Screen(s) = "Browsing"
    /\ k \in 1..Len(availableSlots[s])
    /\ selectedSlot' = Upd(selectedSlot, s, availableSlots[s][k])
    /\ UNCHANGED <<consoleLog, variant, active, store, phase, sheetId, availableSlots, userInfo,
                   bookingComplete, isLoading, errorMessage, refreshInterval,
                   cleanup, timers, timerCount, polls, bookings>>

\* A Change Selection button that also starts over: the form is emptied
\* and fetchAvailableSlots() is called.
ChangeSelectionRefetch(s) ==
    /\ Screen(s) = "SlotSelected"
    /\ Len(polls[s]) < MaxPolls
    /\ selectedSlot' = Upd(selectedSlot, s, NoSlot)
    /\ userInfo' = Upd(userInfo, s, EmptyInfo)
    /\ isLoading' = Upd(isLoading, s, TRUE)
    /\ polls' = Upd(polls, s, Append(polls[s], NewPoll(TRUE)))
    /\ UNCHANGED <<consoleLog, variant, active, store, phase, sheetId, availableSlots,
                   bookingComplete, errorMessage, refreshInterval,
                   cleanup, timers, timerCount, bookings>>

\* The Change Selection button: setSelectedSlot(null).
ChangeSelection(s) ==
    /\ Screen(s) = "SlotSelected"
    /\ selectedSlot' = Upd(selectedSlot, s, NoSlot)
    /\ UNCHANGED <<consoleLog, variant, active, store, phase, sheetId, availableSlots, userInfo,
                   bookingComplete, isLoading, errorMessage, refreshInterval,
                   cleanup, timers, timerCount, polls, bookings>>

\* The inputs of the form: setUserInfo({...userInfo, field: value}).  The
\* checkbox exists in the backend version only.
SetUserInfo(s, info) ==
    /\ Screen(s) = "SlotSelected"
    /\ info # userInfo[s]
    /\ \/ info = [userInfo[s] EXCEPT !.firstName = info.firstName]
       \/ info = [userInfo[s] EXCEPT !.lastName = info.lastName]
       \/ info = [userInfo[s] EXCEPT !.email = info.email]
       \/ /\ variant = "backend"
          /\ info = [userInfo[s] EXCEPT !.isScholarship = info.isScholarship]
    /\ userInfo' = Upd(userInfo, s, info)
    /\ UNCHANGED <<consoleLog, variant, active, store, phase, sheetId, availableSlots,
                   selectedSlot, bookingComplete, isLoading, errorMessage,
                   refreshInterval, cleanup, timers, timerCount, polls, bookings>>

\* The forms the user fills in: nothing, the fields one after the other,
\* a blank typed for the first name, the last name left out.
UserInfos(s) ==
    LET name == IF s = 1 THEN "Ana" ELSE "Bob"
        Info(f, l, e, z) == [firstName |-> f, lastName |-> l, email |-> e,
                             isScholarship |-> z]
    IN  {EmptyInfo, Info(name, "", "", FALSE), Info(name, "Lee", "", FALSE),
         Info(name, "Lee", "a@x.com", FALSE), Info(name, "Lee", "a@x.com", TRUE),
         Info(" ", "Lee", "a@x.com", FALSE), Info(name, "", "a@x.com", FALSE)}

\* The browser's check of the form before it fires onSubmit: the inputs
\* marked required must hold a non-empty value (a blank counts as one for a
\* text input; the addresses typed here are well-formed).
FormValid(info) == info.firstName # "" /\ info.lastName # "" /\ info.email # ""

(***************************************************************************)
(* handleBooking and sendEmails.                                           *)
(***************************************************************************)
\* The body of the commit request.
CommitRow(b) ==
    [status |-> "Booked",
     client_name |-> b.info.firstName \o " " \o b.info.lastName,
     client_email |-> b.info.email,
     zoomOption |-> IF variant = "sheetdb" THEN ""
                    ELSE IF b.info.isScholarship THEN "Yes" ELSE "No"]

\* The form is submitted: setIsLoading(true) and the commit request, with
\* the selectedSlot, userInfo and refreshInterval of the render it was
\* submitted from.
Submit(s) ==
    /\ Screen(s) = "SlotSelected"
    /\ FormValid(userInfo[s])
    /\ Len(bookings[s]) < MaxBookings
    /\ isLoading' = Upd(isLoading, s, TRUE)
    /\ bookings' = Upd(bookings, s, Append(bookings[s],
                       [pc |-> "commit", slot |-> selectedSlot[s],
                        info |-> userInfo[s], interval |-> refreshInterval[s]]))
    /\ UNCHANGED <<consoleLog, variant, active, store, phase, sheetId, availableSlots,
                   selectedSlot, userInfo, bookingComplete, errorMessage,
                   refreshInterval, cleanup, timers, timerCount, polls>>

\* The store takes the write as it comes: no condition on the row's status.
StoreWrite(b) == [store EXCEPT ![b.slot.id] = CommitRow(b)]

\* The commit request fails (fetch rejects, or response.ok is false): the
\* catch and the finally of handleBooking.
CommitFailed(s, i, outcome) ==
    /\ errorMessage' = SetState(errorMessage, s, BookPrefix \o FailDetail(outcome))
    /\ isLoading' = SetState(isLoading, s, FALSE)
    /\ bookings' = Upd(bookings, s, RemoveAt(bookings[s], i))
    /\ UNCHANGED <<store, bookingComplete, timers>>

\* CommitDone of a handleBooking that does not look at response.ok and
\* catches nothing before sendEmails.
CommitDoneNotifiesAnyway(s, i, outcome) ==
    /\ i \in 1..Len(bookings[s])
    /\ bookings[s][i].pc = "commit"
    /\ store' = IF outcome = "ok" THEN StoreWrite(bookings[s][i]) ELSE store
    /\ bookings' = Upd(bookings, s, [bookings[s] EXCEPT ![i].pc = "owner"])
    /\ UNCHANGED <<errorMessage, isLoading, bookingComplete, timers>>
    /\ UNCHANGED <<consoleLog, variant, active, phase, sheetId, availableSlots, selectedSlot,
                   userInfo, refreshInterval, cleanup, timerCount, polls>>

\* The response of the commit request of the i-th handleBooking arrives.
CommitDone(s, i, outcome) ==
    /\ i \in 1..Len(bookings[s])
    /\ bookings[s][i].pc = "commit"
    /\ IF outcome = "ok"
       THEN /\ store' = StoreWrite(bookings[s][i])
            /\ bookings' = Upd(bookings, s, [bookings[s] EXCEPT ![i].pc = "owner"])
            /\ UNCHANGED <<errorMessage, isLoading, bookingComplete, timers>>
       ELSE CommitFailed(s, i, outcome)
    /\ UNCHANGED <<consoleLog, variant, active, phase, sheetId, availableSlots, selectedSlot,
                   userInfo, refreshInterval, cleanup, timerCount, polls>>

\* if (refreshInterval) clearInterval(refreshInterval), with the
\* refreshInterval handleBooking was created with.
ClearRefresh(s, interval) ==
    IF interval # 0 THEN timers[s] \ {interval} ELSE timers[s]

\* The confirmation screen reads selectedSlot.date: with no slot selected
\* the render throws, and React takes the component tree down.
RenderThrows(s) == phase[s] = "mounted" /\ selectedSlot[s] = NoSlot

\* BookingDone that confirms only the visitor whose fields the store holds.
BookingDoneRechecks(s, i) ==
    /\ bookings' = Upd(bookings, s, RemoveAt(bookings[s], i))
    /\ timers' = Upd(timers, s, ClearRefresh(s, bookings[s][i].interval))
    /\ IF store[bookings[s][i].slot.id] = CommitRow(bookings[s][i])
       THEN /\ bookingComplete' = SetState(bookingComplete, s, TRUE)
            /\ UNCHANGED errorMessage
       ELSE /\ errorMessage' = SetState(errorMessage, s, BookPrefix \o "Failed")
            /\ UNCHANGED bookingComplete
    /\ isLoading' = SetState(isLoading, s, FALSE)
    /\ UNCHANGED <<phase, availableSlots, selectedSlot, userInfo, refreshInterval,
                   cleanup>>

\* sendEmails has returned: the rest of the try and the finally.
BookingDone(s, i) ==
    /\ bookings' = Upd(bookings, s, RemoveAt(bookings[s], i))
    /\ IF RenderThrows(s)
       THEN Teardown(s, ClearRefresh(s, bookings[s][i].interval))
       ELSE /\ timers' = Upd(timers, s, ClearRefresh(s, bookings[s][i].interval))
            /\ bookingComplete' = SetState(bookingComplete, s, TRUE)
            /\ isLoading' = SetState(isLoading, s, FALSE)
            /\ UNCHANGED <<phase, availableSlots, selectedSlot, userInfo,
                           errorMessage, refreshInterval, cleanup>>

\* console.log / console.error of sendEmails.
EmailLog(sent) ==
    IF ~sent THEN {"Email sending failed"}
    ELSE IF variant = "backend" THEN {"Emails sent successfully"}
    ELSE {}

\* EmailDone of a sendEmails without its try/catch: a failed notification
\* reaches the catch of handleBooking.
EmailDoneRethrows(s, i, sent) ==
    /\ i \in 1..Len(bookings[s])
    /\ bookings[s][i].pc \in {"owner", "client"}
    /\ IF sent /\ bookings[s][i].pc = "owner"
       THEN /\ bookings' = Upd(bookings, s, [bookings[s] EXCEPT ![i].pc = "client"])
            /\ UNCHANGED <<phase, react, cleanup, timers, consoleLog>>
       ELSE IF sent
       THEN /\ consoleLog' = Upd(consoleLog, s, consoleLog[s] \cup EmailLog(sent))
            /\ BookingDone(s, i)
       ELSE /\ consoleLog' = Upd(consoleLog, s, consoleLog[s] \cup EmailLog(sent))
            /\ errorMessage' = SetState(errorMessage, s, BookPrefix \o "Failed to fetch")
            /\ isLoading' = SetState(isLoading, s, FALSE)
            /\ bookings' = Upd(bookings, s, RemoveAt(bookings[s], i))
            /\ UNCHANGED <<phase, availableSlots, selectedSlot, userInfo,
                           bookingComplete, refreshInterval, cleanup, timers>>
    /\ UNCHANGED <<variant, active, store, sheetId, timerCount, polls>>

\* One of the two notification requests of sendEmails ends: the owner's
\* first, then the client's; a failure of either is caught and logged.
EmailDone(s, i, sent) ==
    /\ i \in 1..Len(bookings[s])
    /\ bookings[s][i].pc \in {"owner", "client"}
    /\ IF sent /\ bookings[s][i].pc = "owner"
       THEN /\ bookings' = Upd(bookings, s, [bookings[s] EXCEPT ![i].pc = "client"])
            /\ UNCHANGED <<phase, react, cleanup, timers, consoleLog>>
       ELSE /\ consoleLog' = Upd(consoleLog, s, consoleLog[s] \cup EmailLog(sent))
            /\ BookingDone(s, i)
    /\ UNCHANGED <<variant, active, store, sheetId, timerCount, polls>>

(***************************************************************************)
(* The rest of the world: other visitors book a slot, the owner frees one. *)
(***************************************************************************)
OtherBooks(k) ==
    /\ store[k].status = "Available"
    /\ store' = [store EXCEPT ![k] = [status |-> "Booked", client_name |-> "Eve Roe",
                                      client_email |-> "e@x.com", zoomOption |-> ""]]
    /\ UNCHANGED <<consoleLog, variant, active, phase, sheetId, react, cleanup, timers,
                   timerCount, polls, bookings>>

OwnerFrees(k) ==
    /\ store[k].status = "Booked"
    /\ store' = [store EXCEPT ![k] = FreeRow]
    /\ UNCHANGED <<consoleLog, variant, active, phase, sheetId, react, cleanup, timers,
                   timerCount, polls, bookings>>

PollOutcomes == {"ok", "http", "net", "decode"}
CommitOutcomes == {"ok", "http", "net"}

Next ==
    \/ \E s \in active : MountEffect(s)
    \/ \E s \in active, sid \in SheetIds : ChangeSheet(s, sid)
    \/ \E s \in active : Unmount(s)
    \/ \E s \in active : Tick(s)
    \/ \E s \in active : Refresh(s)
    \/ \E s \in active : Reload(s)
    \/ \E s \in active, i \in 1..MaxPolls, o \in PollOutcomes : PollDone(s, i, o)
    \/ \E s \in active, k \in Slots : SelectSlot(s, k)
    \/ \E s \in active : ChangeSelection(s)
    \/ \E s \in active : \E info \in UserInfos(s) : SetUserInfo(s, info)
    \/ \E s \in active : Submit(s)
    \/ \E s \in active, i \in 1..MaxBookings, o \in CommitOutcomes : CommitDone(s, i, o)
    \/ \E s \in active, i \in 1..MaxBookings, sent \in BOOLEAN : EmailDone(s, i, sent)
    \/ \E k \in Slots : OtherBooks(k)
    \/ \E k \in Slots : OwnerFrees(k)

Spec == Init /\ [][Next]_vars

\* Every remote call returns or fails in the end: the oldest pending list
\* request of a session gets its response, and so do the commit request and
\* the notification requests of its oldest handleBooking.
ResponsesArrive ==
    \A s \in Sessions :
        /\ WF_vars(\E o \in PollOutcomes : PollDone(s, 1, o))
        /\ WF_vars(\E o \in CommitOutcomes : CommitDone(s, 1, o))
        /\ WF_vars(\E sent \in BOOLEAN : EmailDone(s, 1, sent))

\* A running setInterval timer goes on firing.
TimersFire == \A s \in Sessions : WF_vars(Tick(s))

SpecLive == Init /\ [][Next]_vars /\ ResponsesArrive /\ TimersFire

(***************************************************************************)
(* Two visitors on the same booking link, from the first load to the end   *)
(* of their bookings: no timer tick, nobody else at the store.             *)
(***************************************************************************)
InitRace ==
    /\ variant \in {"backend", "sheetdb"}
    /\ active = Sessions
    /\ store = [k \in 1..NumSlots |-> FreeRow]
    /\ phase = [s \in Sessions |-> "new"]
    /\ sheetId = [s \in Sessions |-> IF variant = "backend" THEN "" ELSE "s1"]
    /\ availableSlots = [s \in Sessions |-> <<>>]
    /\ selectedSlot = [s \in Sessions |-> NoSlot]
    /\ userInfo = [s \in Sessions |-> EmptyInfo]
    /\ bookingComplete = [s \in Sessions |-> FALSE]
    /\ isLoading = [s \in Sessions |-> TRUE]
    /\ errorMessage = [s \in Sessions |-> ""]
    /\ refreshInterval = [s \in Sessions |-> 0]
    /\ cleanup = [s \in Sessions |-> [registered |-> FALSE, refreshInterval |-> 0]]
    /\ timers = [s \in Sessions |-> {}]
    /\ timerCount = [s \in Sessions |-> 0]
    /\ polls = [s \in Sessions |-> <<>>]
    /\ bookings = [s \in Sessions |-> <<>>]
    /\ consoleLog = [s \in Sessions |-> {}]

NextRace ==
    \/ \E s \in active : MountEffect(s)
    \/ \E s \in active, i \in 1..MaxPolls, o \in PollOutcomes : PollDone(s, i, o)
    \/ \E s \in active, k \in Slots : SelectSlot(s, k)
    \/ \E s \in active : \E info \in UserInfos(s) : SetUserInfo(s, info)
    \/ \E s \in active : Submit(s)
    \/ \E s \in active, i \in 1..MaxBookings, o \in CommitOutcomes : CommitDone(s, i, o)
    \/ \E s \in active, i \in 1..MaxBookings, sent \in BOOLEAN : EmailDone(s, i, sent)

SpecRace == InitRace /\ [][NextRace]_vars

(***************************************************************************)
(* One visitor polling a store of several rows, on two dates and with      *)
(* times of different lengths, while rows are booked and freed: the lists  *)
(* the store answers with are the sublists of its rows.                    *)
(***************************************************************************)
InitSort ==
    /\ variant \in {"backend", "sheetdb"}
    /\ active = {1}
    /\ store = [k \in 1..SortRows |-> FreeRow]
    /\ phase = [s \in Sessions |-> "new"]
    /\ sheetId = [s \in Sessions |-> IF variant = "backend" THEN "" ELSE "s1"]
    /\ availableSlots = [s \in Sessions |-> <<>>]
    /\ selectedSlot = [s \in Sessions |-> NoSlot]
    /\ userInfo = [s \in Sessions |-> EmptyInfo]
    /\ bookingComplete = [s \in Sessions |-> FALSE]
    /\ isLoading = [s \in Sessions |-> TRUE]
    /\ errorMessage = [s \in Sessions |-> ""]
    /\ refreshInterval = [s \in Sessions |-> 0]
    /\ cleanup = [s \in Sessions |-> [registered |-> FALSE, refreshInterval |-> 0]]
    /\ timers = [s \in Sessions |-> {}]
    /\ timerCount = [s \in Sessions |-> 0]
    /\ polls = [s \in Sessions |-> <<>>]
    /\ bookings = [s \in Sessions |-> <<>>]
    /\ consoleLog = [s \in Sessions |-> {}]

NextSort ==
    \/ \E s \in active : MountEffect(s)
    \/ \E s \in active : Tick(s)
    \/ \E s \in active, i \in 1..MaxPolls, o \in PollOutcomes : PollDone(s, i, o)
    \/ \E s \in active, k \in Slots : SelectSlot(s, k)
    \/ \E k \in Slots : OtherBooks(k)
    \/ \E k \in Slots : OwnerFrees(k)

SpecSort == InitSort /\ [][NextSort]_vars

(***************************************************************************)
(* One visitor whose list requests overlap: the first load, timer ticks    *)
(* and the manual Refresh, each answered by the store at some moment       *)
(* before its response arrives, the responses arriving in any order,       *)
(* while rows are booked and freed.  (In the other specifications a        *)
(* request is answered at the moment its response arrives.)                *)
(***************************************************************************)
NextOverlap ==
    \/ \E s \in active : MountEffect(s)
    \/ \E s \in active : Tick(s)
    \/ \E s \in active : Refresh(s)
    \/ \E s \in active, i \in 1..MaxPolls : Serve(s, i)
    \/ \E s \in active, i \in 1..MaxPolls, o \in PollOutcomes : PollDone(s, i, o)
    \/ \E k \in Slots : OtherBooks(k)
    \/ \E k \in Slots : OwnerFrees(k)

SpecOverlap == Init /\ [][NextOverlap]_vars

(***************************************************************************)
(* Properties.                                                             *)
(***************************************************************************)
\* String.prototype.trim on the strings the user can type.
Trim(str) == IF str = " " THEN "" ELSE str

\* C1: once a session is Confirmed, no timer of the session fires a list()
\* call any more: every timer it created has been cancelled by then.
C1_NoTickAfterConfirmed ==
    [][\A s \in active : bookingComplete[s] => ~Tick(s)]_vars

\* C2: after the teardown of a session its refresh timer is cancelled: no
\* timer is left running in the terminal state.
C2_NoTimerAfterTeardown ==
    \A s \in active : phase[s] = "unmounted" => timers[s] = {}

\* C3: no commit request is issued for a form whose first name, last name
\* or email is empty after trimming.
C3_NoCommitWithBlankField ==
    \A s \in active : \A i \in 1..Len(bookings[s]) :
        /\ Trim(bookings[s][i].info.firstName) # ""
        /\ Trim(bookings[s][i].info.lastName) # ""
        /\ Trim(bookings[s][i].info.email) # ""

\* C4: a session whose notification failed (the failure is in the console)
\* shows Confirmed as long as it is mounted, and the failed notification
\* leaves the error message as it was.
C4_NotifyFailureKeepsConfirmed ==
    /\ [](\A s \in active :
            (phase[s] = "mounted" /\ "Email sending failed" \in consoleLog[s])
                => RenderState(s) = "Confirmed")
    /\ [][\A s \in active, i \in 1..MaxBookings :
            (EmailDone(s, i, FALSE) /\ phase'[s] = "mounted")
                => errorMessage'[s] = errorMessage[s]]_vars

C4_ConfirmedAfterNotifyFailure ==
    \E s \in active : /\ phase[s] = "mounted"
                      /\ "Email sending failed" \in consoleLog[s]
                      /\ RenderState(s) = "Confirmed"
                      /\ errorMessage[s] = ""

\* C5: a failed commit request puts the session in BookingFailed with a
\* non-empty reason and the loading indicator off, and does not confirm.
C5_CommitFailureShowsBookingFailed ==
    [][\A s \in active, i \in 1..MaxBookings, o \in CommitOutcomes \ {"ok"} :
        (CommitDone(s, i, o) /\ phase[s] = "mounted")
            => /\ RenderState(s)' = "BookingFailed"
               /\ errorMessage'[s] # ""
               /\ ~isLoading'[s]
               /\ bookingComplete'[s] = bookingComplete[s]]_vars

\* C6: with a store that takes every write, each successful commit leaves
\* its own booker fields in the row, whatever the row held, and every
\* session whose booking runs to its end shows Confirmed for the slot it
\* sent, whoever wrote last.
C6_StaleRaceBothConfirmed ==
    /\ [][\A s \in active, i \in 1..MaxBookings :
            CommitDone(s, i, "ok")
                => LET b == bookings[s][i]
                   IN  /\ store'[b.slot.id].status = "Booked"
                       /\ store'[b.slot.id].client_name =
                              b.info.firstName \o " " \o b.info.lastName
                       /\ store'[b.slot.id].client_email = b.info.email]_vars
    /\ [][\A s \in active, i \in 1..MaxBookings, sent \in BOOLEAN :
            (EmailDone(s, i, sent) /\ Len(bookings'[s]) < Len(bookings[s]))
                => /\ RenderState(s)' = "Confirmed"
                   /\ selectedSlot'[s] = bookings[s][i].slot]_vars

C6_BothConfirmedSameSlot ==
    /\ RenderState(1) = "Confirmed"
    /\ RenderState(2) = "Confirmed"
    /\ selectedSlot[1].id = selectedSlot[2].id
    /\ selectedSlot[1].status = "Available"
    /\ selectedSlot[2].status = "Available"
    /\ store[selectedSlot[1].id].client_name = "Bob Lee"
    /\ userInfo[1].firstName = "Ana"

\* C7: a failed poll leaves the snapshot as it was and records a fetch
\* error; the snapshot of a mounted session changes only to the filtered
\* and sorted answer of a successful poll.
C7_FailedPollKeepsSnapshot ==
    /\ [][\A s \in active, i \in 1..MaxPolls, o \in PollOutcomes \ {"ok"} :
            (PollDone(s, i, o) /\ phase[s] = "mounted")
                => /\ availableSlots'[s] = availableSlots[s]
                   /\ errorMessage'[s] \in FetchErrors]_vars
    /\ [][\A s \in active :
            (availableSlots'[s] # availableSlots[s] /\ phase'[s] = "mounted")
                => /\ \E i \in 1..MaxPolls : PollDone(s, i, "ok")
                   /\ availableSlots'[s] = Snapshot(ListResponse)]_vars

C7_ErrorWithSnapshotKept ==
    \E s \in active : /\ phase[s] = "mounted"
                      /\ errorMessage[s] \in FetchErrors
                      /\ availableSlots[s] # <<>>

\* C8: when a foreground poll succeeds with a non-empty list while a fetch
\* error is recorded, the session shows Browsing: the fetch error is gone.
C8_RetryClearsFetchError ==
    [][\A s \in active, i \in 1..MaxPolls :
        (/\ PollDone(s, i, "ok")
         /\ polls[s][i].showLoading
         /\ Len(polls[s]) = 1
         /\ phase[s] = "mounted"
         /\ errorMessage[s] \in FetchErrors
         /\ Snapshot(ListResponse) # <<>>
         /\ bookings[s] = <<>>
         /\ selectedSlot[s] = NoSlot
         /\ ~bookingComplete[s])
            => RenderState(s)' = "Browsing"]_vars

\* C9: in FetchFailed and in BookingFailed a recovery action (one that
\* starts over with a fresh poll) is offered, and the form cannot be
\* submitted again.
C9_ErrorStateOffersRecovery ==
    \A s \in active :
        RenderState(s) \in {"FetchFailed", "BookingFailed"}
            => /\ (ENABLED Reload(s)) \/ (ENABLED Refresh(s))
               /\ ~ENABLED Submit(s)

\* C10: the end of a background refresh changes neither the loading
\* indicator, the selection nor the form, and a session showing the
\* selected slot (SlotSelected, Submitting) goes on showing it.
C10_BackgroundRefreshKeepsScreen ==
    [][\A s \in active, i \in 1..MaxPolls, o \in PollOutcomes :
        (PollDone(s, i, o) /\ ~polls[s][i].showLoading /\ phase[s] = "mounted")
            => /\ isLoading'[s] = isLoading[s]
               /\ selectedSlot'[s] = selectedSlot[s]
               /\ userInfo'[s] = userInfo[s]
               /\ (Screen(s) \in {"SlotSelected", "Submitting"}
                       => Screen(s)' = Screen(s))]_vars

\* Lexicographic order of two strings given as their characters' ranks: a
\* is a proper prefix of b, or smaller at the first place they differ.
StrLess(a, b) ==
    \E n \in 0..Len(a) :
        /\ n <= Len(b)
        /\ \A j \in 1..n : a[j] = b[j]
        /\ \/ n = Len(a) /\ n < Len(b)
           \/ n < Len(a) /\ n < Len(b) /\ a[n + 1] < b[n + 1]

\* No slot of the list comes before a slot of an earlier date, or of the
\* same date and a smaller time string.
IsSorted(q) ==
    \A i, j \in 1..Len(q) :
        i < j => /\ SlotDate(q[i].id) <= SlotDate(q[j].id)
                 /\ SlotDate(q[i].id) = SlotDate(q[j].id)
                        => ~StrLess(SlotTime(q[j].id), SlotTime(q[i].id))

\* C11: the snapshot a successful poll leaves is sorted by date ascending
\* and, within a date, by time ascending in the string order of the stored
\* time field, whichever rows the store answered with.
C11_SnapshotSorted ==
    [][\A s \in active, i \in 1..MaxPolls :
        (PollDone(s, i, "ok") /\ phase[s] = "mounted")
            => /\ IsSorted(availableSlots'[s])
               /\ {r.id : r \in Range(availableSlots'[s])}
                      = {k \in Slots : store[k].status = "Available"}]_vars

\* All four rows in the snapshot: "09:00" of the first date, then "1:00",
\* "10:00" and "9:30" of the second.
C11_FourRowsSorted ==
    \E s \in active : /\ Len(availableSlots[s]) = 4
                      /\ availableSlots[s][1].id = 3
                      /\ availableSlots[s][2].id = 4
                      /\ availableSlots[s][3].id = 2
                      /\ availableSlots[s][4].id = 1

\* C12: a successful poll puts in the snapshot only rows that had status
\* Available in the answer of the store, so that every slot of the snapshot,
\* and every slot offered and selected, has status Available: a row with
\* another status in an unfiltered answer stays out.
C12_SnapshotOnlyAvailable ==
    /\ [][\A s \in active, i \in 1..MaxPolls :
            (PollDone(s, i, "ok") /\ phase[s] = "mounted")
                => Range(availableSlots'[s])
                       = {r \in Range(ListResponse) : r.status = "Available"}]_vars
    /\ [](\A s \in active : \A r \in Range(availableSlots[s]) :
                r.status = "Available")
    /\ [][\A s \in active, k \in Slots :
            SelectSlot(s, k) => selectedSlot'[s].status = "Available"]_vars

\* The store answers with every row, row 2 is Booked, and the snapshot and
\* the selection were made of the three others.
C12_BookedRowLeftOut ==
    \E s \in active : /\ variant = "sheetdb"
                      /\ store[2].status = "Booked"
                      /\ Len(ListResponse) = 4
                      /\ {r.id : r \in Range(availableSlots[s])} = {1, 3, 4}
                      /\ selectedSlot[s].id = 4

\* C13: whenever the selection of a session changes from empty to a slot,
\* the slot is one of the snapshot the session holds at that moment: no
\* intent selects a slot outside the snapshot.
C13_SelectionFromSnapshot ==
    [][\A s \in active :
        (selectedSlot[s] = NoSlot /\ selectedSlot'[s] # NoSlot)
            => /\ selectedSlot'[s] \in Range(availableSlots[s])
               /\ availableSlots'[s] = availableSlots[s]]_vars

\* A slot is selected out of a snapshot that holds two of the four rows.
C13_SelectedOutOfPartialSnapshot ==
    \E s \in active : /\ selectedSlot[s].id = 1
                      /\ {r.id : r \in Range(availableSlots[s])} = {1, 3}
                      /\ store[2].status = "Available"

\* C14: a successful first poll (foreground, nothing failed before) that
\* finds no slot puts the session in Empty; Empty offers a manual retry,
\* and the retry re-enters Loading and issues a new list() call.
C14_EmptyThenRetry ==
    /\ [][\A s \in active, i \in 1..MaxPolls :
            (/\ PollDone(s, i, "ok")
             /\ polls[s][i].showLoading
             /\ phase[s] = "mounted"
             /\ errorMessage[s] = ""
             /\ bookings[s] = <<>>
             /\ Snapshot(ListResponse) = <<>>)
                => RenderState(s)' = "Empty"]_vars
    /\ [](\A s \in active :
            (RenderState(s) = "Empty" /\ Len(polls[s]) < MaxPolls)
                => ENABLED Refresh(s))
    /\ [][\A s \in active :
            Refresh(s) => /\ RenderState(s)' = "Loading"
                          /\ Len(polls'[s]) = Len(polls[s]) + 1
                          /\ polls'[s][Len(polls'[s])].showLoading]_vars

\* C15: the notifications of a submission are sent only after its commit
\* request has returned Ok: a handleBooking goes from the commit request to
\* sendEmails by an Ok answer alone, a failed commit ends it with nothing
\* sent, and a notification ends only for a handleBooking past its commit.
C15_NotifyOnlyAfterCommitOk ==
    /\ [][\A s \in active, i \in 1..MaxBookings :
            (/\ i <= Len(bookings[s])
             /\ Len(bookings'[s]) = Len(bookings[s])
             /\ bookings[s][i].pc = "commit"
             /\ bookings'[s][i].pc # "commit")
                => /\ CommitDone(s, i, "ok")
                   /\ store'[bookings[s][i].slot.id] = CommitRow(bookings[s][i])]_vars
    /\ [][\A s \in active, i \in 1..MaxBookings, o \in CommitOutcomes \ {"ok"} :
            CommitDone(s, i, o)
                => /\ bookings'[s] = RemoveAt(bookings[s], i)
                   /\ consoleLog'[s] = consoleLog[s]]_vars
    /\ [][\A s \in active, i \in 1..MaxBookings, sent \in BOOLEAN :
            EmailDone(s, i, sent) => bookings[s][i].pc # "commit"]_vars

\* The client's notification is on its way, and the store holds the row the
\* commit of that submission wrote.
C15_NotifyingAfterCommit ==
    \E s \in active : /\ bookings[s] # <<>>
                      /\ bookings[s][1].pc = "client"
                      /\ store[bookings[s][1].slot.id] = CommitRow(bookings[s][1])
                      /\ store[bookings[s][1].slot.id].client_name = "Ana Lee"

\* C16: when a session becomes Confirmed, the slot and the booker fields
\* its confirmation screen shows are the slot id and the fields of the
\* commit request that returned Ok.
C16_ConfirmedCarriesCommitted ==
    [][\A s \in active, i \in 1..MaxBookings, sent \in BOOLEAN :
        (EmailDone(s, i, sent) /\ ~bookingComplete[s] /\ bookingComplete'[s])
            => /\ RenderState(s)' = "Confirmed"
               /\ selectedSlot'[s].id = bookings[s][i].slot.id
               /\ userInfo'[s] = bookings[s][i].info]_vars

\* C17: between the moment a submit issues its commit request and the
\* moment it writes Confirmed or BookingFailed, no refresh of the session
\* starts or completes, and no refresh writes the snapshot or an error.
C17_NoRefreshDuringSubmit ==
    [][\A s \in active :
        (bookings[s] # <<>> /\ phase[s] = "mounted")
            => /\ ~Tick(s)
               /\ \A i \in 1..MaxPolls, o \in PollOutcomes : ~PollDone(s, i, o)
               /\ phase'[s] = "mounted" => availableSlots'[s] = availableSlots[s]
               /\ errorMessage'[s] \notin FetchErrors \ {errorMessage[s]}]_vars

\* C18: when every remote call returns or fails in the end, a session in
\* Loading comes to Browsing, Empty or FetchFailed, a session in Submitting
\* comes to Confirmed or BookingFailed, and the loading indicator of a
\* session does not stay on forever (a session taken down shows nothing).
C18_LoadingAndSubmittingEnd ==
    \A s \in Sessions :
        /\ (s \in active /\ Screen(s) = "Loading")
               ~> (RenderState(s) \in {"Browsing", "Empty", "FetchFailed", "None"})
        /\ (s \in active /\ Screen(s) = "Submitting")
               ~> (RenderState(s) \in {"Confirmed", "BookingFailed", "None"})
        /\ []<>(Screen(s) \notin {"Loading", "Submitting"})

\* C19: changeSelection from SlotSelected clears the selection and returns
\* to Browsing, leaves the snapshot and the form as they were, and issues
\* no list() call.
C19_ChangeSelectionToBrowsing ==
    [][\A s \in active :
        (ChangeSelection(s) /\ RenderState(s) = "SlotSelected")
            => /\ selectedSlot'[s] = NoSlot
               /\ RenderState(s)' = "Browsing"
               /\ availableSlots'[s] = availableSlots[s]
               /\ userInfo'[s] = userInfo[s]
               /\ polls'[s] = polls[s]]_vars

\* C19, amended: changeSelection from SlotSelected clears the selection and
\* shows the slots of the snapshot again, which is Browsing, or Empty when a
\* background refresh has emptied the snapshot meanwhile; it leaves the
\* snapshot and the form as they were, and issues no list() call.
C19_ChangeSelectionToSlotList ==
    [][\A s \in active :
        (ChangeSelection(s) /\ RenderState(s) = "SlotSelected")
            => /\ selectedSlot'[s] = NoSlot
               /\ RenderState(s)' = (IF availableSlots[s] = <<>> THEN "Empty"
                                     ELSE "Browsing")
               /\ availableSlots'[s] = availableSlots[s]
               /\ userInfo'[s] = userInfo[s]
               /\ polls'[s] = polls[s]
               /\ isLoading'[s] = isLoading[s]]_vars

\* The selection was dropped with the form half filled: the text typed is
\* still there and the slot list is shown.
C19_SelectionDroppedFormKept ==
    \E s \in active : /\ RenderState(s) = "Browsing"
                      /\ selectedSlot[s] = NoSlot
                      /\ userInfo[s].firstName = "Ana"
                      /\ userInfo[s].lastName = "Lee"
                      /\ polls[s] = <<>>

\* C20: Confirmed is absorbing: as long as the session lives, the
\* booking-complete flag, once set, stays set and the session shows
\* Confirmed, whatever happens; a poll that fails after the confirmation
\* records its error and the session still shows Confirmed.
C20_ConfirmedAbsorbing ==
    /\ [][\A s \in active :
            (bookingComplete[s] /\ phase'[s] = "mounted")
                => /\ bookingComplete'[s]
                   /\ RenderState(s)' = "Confirmed"]_vars
    /\ [][\A s \in active, i \in 1..MaxPolls, o \in PollOutcomes \ {"ok"} :
            (PollDone(s, i, o) /\ bookingComplete[s])
                => /\ errorMessage'[s] \in FetchErrors
                   /\ RenderState(s)' = "Confirmed"]_vars

\* Confirmed with a fetch error recorded and nothing more to come.
C20_ConfirmedWithFetchError ==
    \E s \in active : /\ bookingComplete[s]
                      /\ RenderState(s) = "Confirmed"
                      /\ errorMessage[s] \in FetchErrors
                      /\ polls[s] = <<>>
                      /\ bookings[s] = <<>>

\* The commit requests of a session that have not been answered yet.
CommitsInFlight(s) == {i \in 1..Len(bookings[s]) : bookings[s][i].pc = "commit"}

\* C21: a session has at most one commit request in flight at any time, and
\* it issues a commit request only with a slot selected and only before it
\* has reached Confirmed.
C21_OneCommitAtATime ==
    /\ [](\A s \in active : Cardinality(CommitsInFlight(s)) <= 1)
    /\ [][\A s \in active :
            Cardinality(CommitsInFlight(s)') > Cardinality(CommitsInFlight(s))
                => /\ selectedSlot[s] # NoSlot
                   /\ ~bookingComplete[s]
                   /\ bookings'[s][Len(bookings'[s])].slot = selectedSlot[s]]_vars

\* C22: when two polls of a session overlap and both succeed, the snapshot
\* ends as the response of the one issued later: the response of a poll
\* that a later poll has already overtaken does not replace the snapshot.
C22_LaterPollWins ==
    [][\A s \in active, i \in 1..MaxPolls :
        (PollDone(s, i, "ok") /\ phase[s] = "mounted" /\ polls[s][i].overtaken)
            => availableSlots'[s] = availableSlots[s]]_vars

====
